---- MODULE Spec2Model ----
(***************************************************************************)
(* NoiseTorch LADSPA module (c/ladspa/module.c): the adapter that feeds a  *)
(* fixed-frame denoiser from variable-length host buffers through two ring *)
(* buffers and gates the denoised frames with a voice-activity counter.    *)
(*                                                                         *)
(* Samples are floats in the source.  Here the k-th sample a host hands to *)
(* an instance carries the value k (non-zero and distinct), so that the    *)
(* place of every sample can be followed through the rings; zeros are      *)
(* produced only by muting and by underrun padding.                        *)
(***************************************************************************)
EXTENDS Integers, Sequences, FiniteSets, TLC

(***************************************************************************)
(* Sizes.  The three sizes of the source are scaled down so that a full    *)
(* ring and an expired grace period are reached; every formula below is    *)
(* stated in terms of the names, not of the numbers.                       *)
(***************************************************************************)
\* 480 in the source (module.c:21)
FRAMESIZE_NSAMPLES == 3
\* 20 in the source (module.c:24)
VAD_GRACE_PERIOD == 1
\* 100 in the source (module.c:49-50): ring capacity in frames
RINGBUF_FRAMES == 4

SIZEOF_FLOAT == 4
FRAMESIZE_BYTES == FRAMESIZE_NSAMPLES * SIZEOF_FLOAT
SCALE == 32767
PERCENT == 100
NULL == 0
\* SF_INPUT, SF_OUTPUT, SF_VAD of the source
PORT_INPUT == 0
PORT_OUTPUT == 1
PORT_VAD == 2

\* The call discipline: a run call asks for at most the ring capacity minus
\* two frames.
MaxSamples == (RINGBUF_FRAMES - 2) * FRAMESIZE_NSAMPLES
\* Samples a single instance receives over its life in Spec.
MaxTotal == (VAD_GRACE_PERIOD + 3) * FRAMESIZE_NSAMPLES
\* Samples each of the two instances receives in SpecPair, and the call sizes
\* and control value there: a call that leaves a partial frame, a call of a
\* whole frame.
PairTotal == 2 * FRAMESIZE_NSAMPLES
PairSamples == {1, FRAMESIZE_NSAMPLES}
PairControls == {50}

Handles == {1, 2}
Ports == {PORT_INPUT, PORT_OUTPUT, PORT_VAD}
\* Values the host writes to the "VAD %%" control port (range [0,95]).
VadControls == {0, 50}
\* Speech probabilities the denoiser reports, in hundredths.
Probs == {0, 50, 100}
\* What a slot of a host output buffer holds before run has written it: no
\* sample value (samples are 0 or multiples of SCALE, or those divided by it).
UNWRITTEN == SCALE + 1
\* The host's buffers: one location (a non-null address) per instance and port.
LocOf(h, port) == h * Cardinality(Ports) + port
Locs == {LocOf(h, port) : h \in Handles, port \in Ports}

VARIABLES
  handle,   \* handle[h]: what instantiate returned to the host for slot h
  filter,   \* filter[h]: the rnnoiseFilter record
  rbs,      \* heap of ring buffers, indexed by ringbuf_t
  dns,      \* heap of denoiser states, indexed by DenoiseState*
  mem,      \* host memory: the buffers the ports are connected to
  call,     \* call[h]: the locals of the run call in progress
  obs,      \* obs[h]: history of what instance h was given and produced
  solo      \* solo[h]: instance h run alone on the same calls

vars == <<handle, filter, rbs, dns, mem, call, obs, solo>>

----------------------------------------------------------------------------
(* Sequences *)

Zeros(n) == [k \in 1..n |-> 0]

Take(s, n) == SubSeq(s, 1, IF n <= Len(s) THEN n ELSE Len(s))

Drop(s, n) == SubSeq(s, n + 1, Len(s))

IsPrefix(s, t) == Len(s) <= Len(t) /\ s = SubSeq(t, 1, Len(s))

Max(a, b) == IF a >= b THEN a ELSE b

----------------------------------------------------------------------------
(* RingBuffer: a fixed-capacity byte FIFO.  Its elements here are whole    *)
(* floats; byte counts are SIZEOF_FLOAT times the element counts.          *)

RingEmpty(capacity) == [cap |-> capacity, data |-> <<>>]

\* A new ring on the heap and its address, or NULL when allocation fails.
ringbuf_new(heap, capacity, ok) ==
  IF ok
  THEN [ptr |-> Len(heap) + 1, heap |-> Append(heap, RingEmpty(capacity))]
  ELSE [ptr |-> NULL, heap |-> heap]

ringbuf_bytes_used(rb) == Len(rb.data) * SIZEOF_FLOAT

ringbuf_bytes_free(rb) == rb.cap - ringbuf_bytes_used(rb)

ringbuf_memcpy_into(rb, src) == [rb EXCEPT !.data = @ \o src]

\* The count bytes at the head of the ring, and the ring without them.
ringbuf_memcpy_from(rb, count) ==
  [dst |-> Take(rb.data, count \div SIZEOF_FLOAT),
   rb  |-> [rb EXCEPT !.data = Drop(@, count \div SIZEOF_FLOAT)]]

----------------------------------------------------------------------------
(* The denoiser: one frame in, one frame out.  The engine is opaque; its   *)
(* output sample is an injective image of the input sample at the same     *)
(* place, and its state is the number of frames it has processed.          *)

Denoised(v) == 0 - v

\* A new engine on the heap and its address, or NULL when allocation fails.
rnnoise_create(heap, ok) ==
  IF ok
  THEN [ptr |-> Len(heap) + 1, heap |-> Append(heap, 0)]
  ELSE [ptr |-> NULL, heap |-> heap]

rnnoise_process_frame(st, frame) ==
  [st |-> st + 1, tmp |-> [k \in 1..Len(frame) |-> Denoised(frame[k])]]

----------------------------------------------------------------------------
(* runFilter, on the state one instance reaches through its handle:        *)
(*   M.in_buf, M.out_buf, M.st   what the three pointers of the record     *)
(*                               point to                                  *)
(*   M.remaining_grace_period    the VAD counter                           *)
(*   M.vad, M.in, M.out          what the three ports point to             *)
(*   M.n_samples .. M.i          the locals of the call                    *)

\* vad_thresh = *m_pfVAD / 100, kept as a fraction
VadThresh(control) == [num |-> control, den |-> PERCENT]

ProbReaches(p, thresh) == p * thresh.den >= thresh.num * PERCENT

\* vad_prob > vad_thresh, for a probability p given in hundredths
ProbExceeds(p, thresh) == p * thresh.den > thresh.num * PERCENT

\* in[i] = in[i] * 32767 for i < n_samples
ScaleInput(in, n) ==
  [k \in 1..Len(in) |-> IF k <= n THEN in[k] * SCALE ELSE in[k]]

\* out[i] = out[i] / 32767 for i < n_samples
RescaleOutput(out, n) ==
  [k \in 1..Len(out) |->
     IF k <= n /\ out[k] # UNWRITTEN THEN out[k] \div SCALE ELSE out[k]]

FrameAtFirst(tmpin, i) == SubSeq(tmpin, 1, FRAMESIZE_NSAMPLES)

\* tmpin + (i * FRAMESIZE_NSAMPLES), read for one frame
FrameAt(tmpin, i) ==
  SubSeq(tmpin, i * FRAMESIZE_NSAMPLES + 1, (i + 1) * FRAMESIZE_NSAMPLES)

\* The frames counted from the call's samples alone.
runFilter_beginFramesOfCall(M) ==
  LET scaled   == ScaleInput(M.in, M.n_samples)
      pushed   == ringbuf_memcpy_into(M.in_buf, Take(scaled, M.n_samples))
      n_frames == (M.n_samples * SIZEOF_FLOAT) \div FRAMESIZE_BYTES
      popped   == ringbuf_memcpy_from(pushed, FRAMESIZE_BYTES * n_frames)
  IN  [M EXCEPT !.vad_thresh = VadThresh(M.vad),
                !.in = scaled,
                !.in_buf = popped.rb,
                !.n_frames = n_frames,
                !.tmpin = popped.dst,
                !.i = 0,
                !.pc = "loop"]

\* Scale the host's input in place, push it, pop the whole frames.
runFilter_begin(M) ==
  LET scaled   == ScaleInput(M.in, M.n_samples)
      pushed   == ringbuf_memcpy_into(M.in_buf, Take(scaled, M.n_samples))
      n_frames == ringbuf_bytes_used(pushed) \div FRAMESIZE_BYTES
      popped   == ringbuf_memcpy_from(pushed, FRAMESIZE_BYTES * n_frames)
  IN  [M EXCEPT !.vad_thresh = VadThresh(M.vad),
                !.in = scaled,
                !.in_buf = popped.rb,
                !.n_frames = n_frames,
                !.tmpin = popped.dst,
                !.i = 0,
                !.pc = "loop"]

VadGateMuteOnce(grace, vad_prob, vad_thresh, tmp) ==
  LET g == IF ProbExceeds(vad_prob, vad_thresh) THEN VAD_GRACE_PERIOD ELSE grace
  IN  IF g >= 0
      THEN [grace |-> g - 1, tmp |-> tmp]
      ELSE [grace |-> VAD_GRACE_PERIOD, tmp |-> Zeros(FRAMESIZE_NSAMPLES)]

VadGateNoFloor(grace, vad_prob, vad_thresh, tmp) ==
  LET g == IF ProbExceeds(vad_prob, vad_thresh) THEN VAD_GRACE_PERIOD ELSE grace
  IN  IF g >= 0
      THEN [grace |-> g - 1, tmp |-> tmp]
      ELSE [grace |-> g - 1, tmp |-> Zeros(FRAMESIZE_NSAMPLES)]

VadGateEarly(grace, vad_prob, vad_thresh, tmp) ==
  LET g == IF ProbExceeds(vad_prob, vad_thresh) THEN VAD_GRACE_PERIOD ELSE grace
  IN  IF g > 0
      THEN [grace |-> g - 1, tmp |-> tmp]
      ELSE [grace |-> g, tmp |-> Zeros(FRAMESIZE_NSAMPLES)]

\* The gate, for one frame: the counter and the frame to push.
VadGate(grace, vad_prob, vad_thresh, tmp) ==
  LET g == IF ProbExceeds(vad_prob, vad_thresh) THEN VAD_GRACE_PERIOD ELSE grace
  IN  IF g >= 0
      THEN [grace |-> g - 1, tmp |-> tmp]
      ELSE [grace |-> g, tmp |-> Zeros(FRAMESIZE_NSAMPLES)]

\* The turn that does not advance i.
runFilter_frameStuck(M, vad_prob) ==
  LET den  == rnnoise_process_frame(M.st, FrameAt(M.tmpin, M.i))
      gate == VadGate(M.remaining_grace_period, vad_prob, M.vad_thresh, den.tmp)
  IN  [M EXCEPT !.st = den.st,
                !.remaining_grace_period = gate.grace,
                !.out_buf = ringbuf_memcpy_into(@, gate.tmp)]

\* One turn of the frame loop; vad_prob is what the denoiser reports.
runFilter_frame(M, vad_prob) ==
  LET den  == rnnoise_process_frame(M.st, FrameAt(M.tmpin, M.i))
      gate == VadGate(M.remaining_grace_period, vad_prob, M.vad_thresh, den.tmp)
  IN  [M EXCEPT !.st = den.st,
                !.remaining_grace_period = gate.grace,
                !.out_buf = ringbuf_memcpy_into(@, gate.tmp),
                !.i = @ + 1]

SamplesAvailUnframed(out_buf) == ringbuf_bytes_used(out_buf) \div SIZEOF_FLOAT

SamplesAvailRoundedUp(out_buf) ==
  ((ringbuf_bytes_used(out_buf) + FRAMESIZE_BYTES - 1) \div FRAMESIZE_BYTES)
    * FRAMESIZE_NSAMPLES

\* frames_avail * FRAMESIZE_NSAMPLES
SamplesAvail(out_buf) ==
  (ringbuf_bytes_used(out_buf) \div FRAMESIZE_BYTES) * FRAMESIZE_NSAMPLES

\* The samples of zero padding the call writes (skip), 0 without underrun.
DrainSkip(out_buf, n) ==
  IF SamplesAvail(out_buf) < n THEN n - SamplesAvail(out_buf) ELSE 0

DrainBytesNoPopOnUnderrun(out_buf, n) ==
  IF SamplesAvail(out_buf) < n THEN 0 ELSE n * SIZEOF_FLOAT

\* The bytes the call pops from the output ring.
DrainBytes(out_buf, n) ==
  IF SamplesAvail(out_buf) < n
  THEN SamplesAvail(out_buf) * SIZEOF_FLOAT
  ELSE n * SIZEOF_FLOAT

\* Write seq into buf from slot at (1-based) on, leaving the rest.
WriteAt(buf, at, seq) ==
  [k \in 1..Len(buf) |->
     IF k >= at /\ k < at + Len(seq) THEN seq[k - at + 1] ELSE buf[k]]

PadOutputShort(out, skip) == WriteAt(out, 1, Zeros(skip - 1))

\* out[i] = 0.f for i < skip
PadOutput(out, skip) == WriteAt(out, 1, Zeros(skip))

\* Pad, pop into the host's output and scale it back.
runFilter_drain(M) ==
  LET skip   == DrainSkip(M.out_buf, M.n_samples)
      popped == ringbuf_memcpy_from(M.out_buf, DrainBytes(M.out_buf, M.n_samples))
      padded == PadOutput(M.out, skip)
      filled == WriteAt(padded, skip + 1, popped.dst)
  IN  [M EXCEPT !.out = RescaleOutput(filled, M.n_samples),
                !.out_buf = popped.rb,
                !.pc = "idle"]

----------------------------------------------------------------------------
(* The instance record and the host's calls *)

NoFilter ==
  [st |-> NULL, in_buf |-> NULL, out_buf |-> NULL,
   remaining_grace_period |-> 0, init |-> 0,
   m_pfVAD |-> NULL, m_pfInput |-> NULL, m_pfOutput |-> NULL]

NoCall ==
  [pc |-> "idle", n_samples |-> 0, vad_thresh |-> VadThresh(0),
   tmpin |-> <<>>, n_frames |-> 0, i |-> 0]

NoOp == [req |-> 0, room |-> 0]

NoObs ==
  [alloc_failed |-> FALSE,   \* some allocation of instantiate failed
   received |-> 0,           \* input samples received
   in_given |-> <<>>,        \* the input buffer as the host filled it
   max_n |-> 0,              \* the largest n_samples so far
   frames |-> 0,             \* frames processed
   gated |-> <<>>,           \* every frame pushed to the output ring, in order
   delivered |-> <<>>,       \* every non-padding output sample, in order
   padding |-> 0,            \* samples of zero padding written
   since_trigger |-> 0 - 1,  \* frames since the last one above the threshold
   last_denoised |-> <<>>,   \* the denoiser's output for the latest frame
   last_pushed |-> <<>>,     \* what was pushed for the latest frame
   last_above |-> FALSE,     \* the latest frame's probability was above v/100
   skip |-> 0,               \* samples of padding in the latest call
   in_push |-> NoOp,         \* bytes of the latest push/pop on each ring and
   in_pop |-> NoOp,          \* the bytes free/used when it was asked
   out_push |-> NoOp,
   out_pop |-> NoOp]

NoMachine ==
  [in_buf |-> RingEmpty(0), out_buf |-> RingEmpty(0), st |-> 0,
   remaining_grace_period |-> 0, vad |-> 0, in |-> <<>>, out |-> <<>>,
   pc |-> "idle", n_samples |-> 0, vad_thresh |-> VadThresh(0),
   tmpin |-> <<>>, n_frames |-> 0, i |-> 0]

RingCapacityShort == FRAMESIZE_BYTES * (RINGBUF_FRAMES - 1)

\* ringbuf_new(FRAMESIZE_BYTES * 100)
RingCapacity == FRAMESIZE_BYTES * RINGBUF_FRAMES

\* The counter left at 0 by instantiate.
instantiateNoGrace(rheap, dheap, addr, okFilter, okIn, okOut, okSt) ==
  LET a == ringbuf_new(rheap, RingCapacity, okIn)
      b == ringbuf_new(a.heap, RingCapacity, okOut)
      c == rnnoise_create(dheap, okSt)
  IN  IF okFilter
      THEN [ret |-> addr,
            filter |-> [NoFilter EXCEPT !.in_buf = a.ptr, !.out_buf = b.ptr,
                                        !.init = 0,
                                        !.remaining_grace_period = 0,
                                        !.st = c.ptr],
            rbs |-> b.heap, dns |-> c.heap]
      ELSE [ret |-> NULL, filter |-> NoFilter, rbs |-> rheap, dns |-> dheap]

\* instantiate: the record, the heaps and the handle returned.  The four ok
\* flags say which of the allocations succeed.
instantiateSimpleFilter(rheap, dheap, addr, okFilter, okIn, okOut, okSt) ==
  LET a == ringbuf_new(rheap, RingCapacity, okIn)
      b == ringbuf_new(a.heap, RingCapacity, okOut)
      c == rnnoise_create(dheap, okSt)
  IN  IF okFilter
      THEN [ret |-> addr,
            filter |-> [NoFilter EXCEPT !.in_buf = a.ptr, !.out_buf = b.ptr,
                                        !.init = 0,
                                        !.remaining_grace_period = VAD_GRACE_PERIOD,
                                        !.st = c.ptr],
            rbs |-> b.heap, dns |-> c.heap]
      ELSE [ret |-> NULL, filter |-> NoFilter, rbs |-> rheap, dns |-> dheap]

InstanceOfFirst(h) == CHOOSE a \in Handles : \A g \in Handles : a <= g

\* psFilter = (rnnoiseFilter *)Instance
InstanceOf(h) == h

Complete(a) ==
  /\ filter[a].st # NULL
  /\ filter[a].in_buf # NULL
  /\ filter[a].out_buf # NULL

Connected(a) ==
  /\ filter[a].m_pfVAD # NULL
  /\ filter[a].m_pfInput # NULL
  /\ filter[a].m_pfOutput # NULL

Live(h) == handle[h].state = "returned" /\ handle[h].ptr # NULL

\* What the record at address a and the locals of call h amount to, in
\* memory m.
LoadAt(a, h, m) ==
  [in_buf |-> rbs[filter[a].in_buf],
   out_buf |-> rbs[filter[a].out_buf],
   st |-> dns[filter[a].st],
   remaining_grace_period |-> filter[a].remaining_grace_period,
   vad |-> m[filter[a].m_pfVAD],
   in |-> m[filter[a].m_pfInput],
   out |-> m[filter[a].m_pfOutput],
   pc |-> call[h].pc, n_samples |-> call[h].n_samples,
   vad_thresh |-> call[h].vad_thresh, tmpin |-> call[h].tmpin,
   n_frames |-> call[h].n_frames, i |-> call[h].i]

Load(h, m) == LoadAt(InstanceOf(h), h, m)

\* Instance h as its host sees it: the record behind the handle, the host's
\* own buffers, the call in progress.
View(h) ==
  [in_buf |-> rbs[filter[h].in_buf],
   out_buf |-> rbs[filter[h].out_buf],
   st |-> dns[filter[h].st],
   remaining_grace_period |-> filter[h].remaining_grace_period,
   vad |-> mem[LocOf(h, PORT_VAD)],
   in |-> mem[LocOf(h, PORT_INPUT)],
   out |-> mem[LocOf(h, PORT_OUTPUT)],
   pc |-> call[h].pc, n_samples |-> call[h].n_samples,
   vad_thresh |-> call[h].vad_thresh, tmpin |-> call[h].tmpin,
   n_frames |-> call[h].n_frames, i |-> call[h].i]

Store(h, M, m) ==
  LET a == InstanceOf(h)
      f == filter[a]
  IN  /\ filter' = [filter EXCEPT
                      ![a].remaining_grace_period = M.remaining_grace_period]
      /\ rbs' = [rbs EXCEPT ![f.in_buf] = M.in_buf, ![f.out_buf] = M.out_buf]
      /\ dns' = [dns EXCEPT ![f.st] = M.st]
      /\ mem' = [m EXCEPT ![f.m_pfInput] = M.in, ![f.m_pfOutput] = M.out]
      /\ call' = [call EXCEPT ![h] =
                    [pc |-> M.pc, n_samples |-> M.n_samples,
                     vad_thresh |-> M.vad_thresh, tmpin |-> M.tmpin,
                     n_frames |-> M.n_frames, i |-> M.i]]

\* The host fills its buffers for a call of n samples: the next n samples of
\* the stream, the control value v, and an output buffer not yet written.
HostInput(received, n) == [k \in 1..n |-> received + k]

HostOutput(n) == [k \in 1..n |-> UNWRITTEN]

HostWrite(M, received, n, v) ==
  [M EXCEPT !.in = HostInput(received, n), !.out = HostOutput(n),
            !.vad = v, !.n_samples = n]

Init ==
  /\ handle = [h \in Handles |-> [state |-> "none", ptr |-> NULL]]
  /\ filter = [h \in Handles |-> NoFilter]
  /\ rbs = <<>>
  /\ dns = <<>>
  /\ mem = [l \in Locs |->
              IF l \in {LocOf(h, PORT_VAD) : h \in Handles} THEN 0 ELSE <<>>]
  /\ call = [h \in Handles |-> NoCall]
  /\ obs = [h \in Handles |-> NoObs]
  /\ solo = [h \in Handles |-> NoMachine]

Instantiate(h, okFilter, okIn, okOut, okSt) ==
  /\ handle[h].state = "none"
  /\ LET r == instantiateSimpleFilter(rbs, dns, h, okFilter, okIn, okOut, okSt)
     IN  /\ handle' = [handle EXCEPT ![h] = [state |-> "returned", ptr |-> r.ret]]
         /\ filter' = [filter EXCEPT ![h] = r.filter]
         /\ rbs' = r.rbs
         /\ dns' = r.dns
         /\ obs' = [obs EXCEPT ![h].alloc_failed =
                      ~(okFilter /\ okIn /\ okOut /\ okSt)]
         /\ solo' = [solo EXCEPT ![h] =
                       IF okFilter /\ okIn /\ okOut /\ okSt
                       THEN [NoMachine EXCEPT
                               !.in_buf = r.rbs[r.filter.in_buf],
                               !.out_buf = r.rbs[r.filter.out_buf],
                               !.st = r.dns[r.filter.st],
                               !.remaining_grace_period =
                                  r.filter.remaining_grace_period]
                       ELSE NoMachine]
  /\ UNCHANGED <<mem, call>>

\* connect_port: the switch on Port
connectPortToSimpleFilter(f, Port, DataLocation) ==
  CASE Port = PORT_VAD -> [f EXCEPT !.m_pfVAD = DataLocation]
    [] Port = PORT_INPUT -> [f EXCEPT !.m_pfInput = DataLocation]
    [] Port = PORT_OUTPUT -> [f EXCEPT !.m_pfOutput = DataLocation]
    [] OTHER -> f

ConnectPort(h, port) ==
  /\ Live(h)
  /\ call[h].pc = "idle"
  /\ filter[InstanceOf(h)] # connectPortToSimpleFilter(filter[InstanceOf(h)], port, LocOf(h, port))
  /\ filter' = [filter EXCEPT ![InstanceOf(h)] =
                  connectPortToSimpleFilter(@, port, LocOf(h, port))]
  /\ UNCHANGED <<handle, rbs, dns, mem, call, obs, solo>>

CanRun(h) ==
  /\ Live(h)
  /\ Complete(InstanceOf(h))
  /\ Connected(InstanceOf(h))

\* run, up to the frame loop: the host has filled its buffers.
RunBegin(h, n, v, budget) ==
  /\ CanRun(h)
  /\ call[h].pc = "idle"
  /\ obs[h].received + n <= budget
  /\ LET memH == [mem EXCEPT ![LocOf(h, PORT_INPUT)] = HostInput(obs[h].received, n),
                             ![LocOf(h, PORT_OUTPUT)] = HostOutput(n),
                             ![LocOf(h, PORT_VAD)] = v]
         M0 == [Load(h, memH) EXCEPT !.n_samples = n]
         M1 == runFilter_begin(M0)
         nb == n * SIZEOF_FLOAT
     IN  /\ Store(h, M1, memH)
         /\ solo' = [solo EXCEPT ![h] =
                       runFilter_begin(HostWrite(@, obs[h].received, n, v))]
         /\ obs' = [obs EXCEPT
               ![h].received = @ + n,
               ![h].in_given = HostInput(obs[h].received, n),
               ![h].max_n = Max(@, n),
               ![h].in_push = [req |-> nb, room |-> ringbuf_bytes_free(M0.in_buf)],
               ![h].in_pop = [req |-> M1.n_frames * FRAMESIZE_BYTES,
                              room |-> ringbuf_bytes_used(M0.in_buf) + nb]]
  /\ UNCHANGED handle

\* run, one turn of the frame loop, the denoiser reporting probability p.
RunFrame(h, p) ==
  /\ call[h].pc = "loop"
  /\ call[h].i < call[h].n_frames
  /\ LET M0 == Load(h, mem)
         M1 == runFilter_frame(M0, p)
         pushed == Drop(M1.out_buf.data, Len(M0.out_buf.data))
     IN  /\ Store(h, M1, mem)
         /\ solo' = [solo EXCEPT ![h] = runFilter_frame(@, p)]
         /\ obs' = [obs EXCEPT
               ![h].frames = @ + 1,
               ![h].gated = @ \o pushed,
               ![h].since_trigger =
                  IF ProbExceeds(p, M0.vad_thresh) THEN 0
                  ELSE IF @ >= 0 THEN @ + 1 ELSE @,
               ![h].last_denoised =
                  rnnoise_process_frame(M0.st, FrameAt(M0.tmpin, M0.i)).tmp,
               ![h].last_pushed = pushed,
               ![h].last_above = (p > mem[LocOf(h, PORT_VAD)]),
               ![h].out_push = [req |-> Len(pushed) * SIZEOF_FLOAT,
                                room |-> ringbuf_bytes_free(M0.out_buf)]]
  /\ UNCHANGED handle

\* run, after the frame loop: fill the host's output.
RunDrain(h) ==
  /\ call[h].pc = "loop"
  /\ call[h].i = call[h].n_frames
  /\ LET M0 == Load(h, mem)
         M1 == runFilter_drain(M0)
         skip == DrainSkip(M0.out_buf, M0.n_samples)
     IN  /\ Store(h, M1, mem)
         /\ solo' = [solo EXCEPT ![h] = runFilter_drain(@)]
         /\ obs' = [obs EXCEPT
               ![h].padding = @ + skip,
               ![h].skip = skip,
               ![h].delivered = @ \o Drop(M1.out, skip),
               ![h].out_pop = [req |-> DrainBytes(M0.out_buf, M0.n_samples),
                               room |-> ringbuf_bytes_used(M0.out_buf)]]
  /\ UNCHANGED handle

\* cleanup: the engine, the rings and the record are released.
Cleanup(h) ==
  /\ Live(h)
  /\ Complete(InstanceOf(h))
  /\ call[h].pc = "idle"
  /\ handle' = [handle EXCEPT ![h].state = "freed"]
  /\ filter' = [filter EXCEPT ![InstanceOf(h)] = NoFilter]
  /\ UNCHANGED <<rbs, dns, mem, call, obs, solo>>

\* A record whose rings or engine are missing: run and cleanup dereference a
\* null pointer.
Crash(h) ==
  /\ Live(h)
  /\ ~Complete(InstanceOf(h))
  /\ handle' = [handle EXCEPT ![h].state = "crashed"]
  /\ UNCHANGED <<filter, rbs, dns, mem, call, obs, solo>>

----------------------------------------------------------------------------
(* One instance, with every outcome of its allocations. *)

TheHandle == CHOOSE h \in Handles : \A g \in Handles : h <= g

InstantiateAny(h) ==
  \E okFilter, okIn, okOut, okSt \in BOOLEAN :
    Instantiate(h, okFilter, okIn, okOut, okSt)

ConnectAny(h) == \E port \in Ports : ConnectPort(h, port)

RunBeginAny(h) ==
  \E n \in 0..MaxSamples, v \in VadControls : RunBegin(h, n, v, MaxTotal)

RunFrameAny(h) == \E p \in Probs : RunFrame(h, p)

Next ==
  \/ InstantiateAny(TheHandle)
  \/ ConnectAny(TheHandle)
  \/ RunBeginAny(TheHandle)
  \/ RunFrameAny(TheHandle)
  \/ RunDrain(TheHandle)
  \/ Cleanup(TheHandle)
  \/ Crash(TheHandle)

Spec == Init /\ [][Next]_vars

----------------------------------------------------------------------------
(* Two instances, each driven by its own sequence of calls; the calls of   *)
(* the two interleave step by step.  Allocation succeeds.                  *)

PairInstantiate == \E h \in Handles : Instantiate(h, TRUE, TRUE, TRUE, TRUE)

PairConnect == \E h \in Handles : ConnectAny(h)

PairRunBegin ==
  \E h \in Handles, n \in PairSamples, v \in PairControls :
    RunBegin(h, n, v, PairTotal)

PairRunFrame == \E h \in Handles : RunFrameAny(h)

PairRunDrain == \E h \in Handles : RunDrain(h)

PairCleanup == \E h \in Handles : Cleanup(h)

NextPair ==
  \/ PairInstantiate
  \/ PairConnect
  \/ PairRunBegin
  \/ PairRunFrame
  \/ PairRunDrain
  \/ PairCleanup

SpecPair == Init /\ [][NextPair]_vars

----------------------------------------------------------------------------
(* Properties *)

H == TheHandle

\* The instance exists with its rings and engine (between instantiate and
\* cleanup).
Built(h) == Live(h) /\ Complete(h)

Idle(h) == call[h].pc = "idle"

InRing(h) == rbs[filter[h].in_buf]

OutRing(h) == rbs[filter[h].out_buf]

HostIn(h) == mem[LocOf(h, PORT_INPUT)]

HostOut(h) == mem[LocOf(h, PORT_OUTPUT)]

Rescaled(s) == [k \in 1..Len(s) |-> s[k] \div SCALE]

\* C1: once a frame has a probability above the threshold and every frame
\* after it has not, that frame and the VAD_GRACE_PERIOD frames after it are
\* pushed as the denoiser produced them, and every later frame is pushed as
\* FRAMESIZE_NSAMPLES zeros.
C1_GraceHysteresis ==
  (obs[H].frames > 0 /\ obs[H].since_trigger >= 0) =>
     IF obs[H].since_trigger <= VAD_GRACE_PERIOD
     THEN obs[H].last_pushed = obs[H].last_denoised
     ELSE obs[H].last_pushed = Zeros(FRAMESIZE_NSAMPLES)

C1_Witness ==
  /\ obs[H].since_trigger = VAD_GRACE_PERIOD + 1
  /\ obs[H].last_pushed = Zeros(FRAMESIZE_NSAMPLES)
  /\ obs[H].last_pushed # obs[H].last_denoised

\* C2: samples keep their order.  The k-th sample pushed to the output ring
\* is the denoised k-th input sample or its muting; the output ring holds
\* the pushed samples not yet delivered; the non-padding output is a prefix
\* of what was pushed; the input ring holds, in order, the samples received
\* and not yet framed; and after every call
\* received = input ring + output ring + delivered.
C2_OrderPreserved ==
  Built(H) =>
    /\ Len(obs[H].gated) = obs[H].frames * FRAMESIZE_NSAMPLES
    /\ \A k \in 1..Len(obs[H].gated) :
         obs[H].gated[k] \in {0, Denoised(k * SCALE)}
    /\ IsPrefix(obs[H].delivered, Rescaled(obs[H].gated))
    /\ OutRing(H).data = Drop(obs[H].gated, Len(obs[H].delivered))
    /\ Idle(H) =>
         /\ InRing(H).data =
              [k \in 1..(obs[H].received - Len(obs[H].gated)) |->
                 (Len(obs[H].gated) + k) * SCALE]
         /\ obs[H].received =
              Len(InRing(H).data) + Len(OutRing(H).data) + Len(obs[H].delivered)

C2_Witness ==
  /\ Built(H) /\ Idle(H)
  /\ Len(obs[H].delivered) > FRAMESIZE_NSAMPLES
  /\ Len(OutRing(H).data) > 0
  /\ Len(InRing(H).data) > 0
  /\ obs[H].padding > 0
  /\ \E k \in 1..Len(obs[H].delivered) : obs[H].delivered[k] # 0

\* C3 as stated: after every call each ring holds less than one frame plus
\* the largest call so far.
C3_Original ==
  (Built(H) /\ Idle(H)) =>
    /\ ringbuf_bytes_used(InRing(H)) < FRAMESIZE_BYTES + obs[H].max_n * SIZEOF_FLOAT
    /\ ringbuf_bytes_used(OutRing(H)) < FRAMESIZE_BYTES + obs[H].max_n * SIZEOF_FLOAT

\* C3, amended: after every call the input ring holds less than one frame,
\* the output ring at most two frames less two samples, and the two together
\* at most two frames less two samples, whatever the sizes of the calls.
C3_BacklogBound ==
  (Built(H) /\ Idle(H)) =>
    /\ ringbuf_bytes_used(InRing(H)) < FRAMESIZE_BYTES
    /\ ringbuf_bytes_used(OutRing(H)) <= 2 * FRAMESIZE_BYTES - 2 * SIZEOF_FLOAT
    /\ ringbuf_bytes_used(InRing(H)) + ringbuf_bytes_used(OutRing(H))
         <= 2 * FRAMESIZE_BYTES - 2 * SIZEOF_FLOAT

C3_Witness ==
  /\ Built(H) /\ Idle(H)
  /\ obs[H].max_n = 1
  /\ ringbuf_bytes_used(OutRing(H)) = 2 * FRAMESIZE_BYTES - 2 * SIZEOF_FLOAT

\* C4: while a fresh instance has received less than one frame in all, every
\* call leaves its n_samples output samples all zero.
C4_StartupUnderrun ==
  (Live(H) /\ Idle(H) /\ obs[H].received < FRAMESIZE_NSAMPLES) =>
     HostOut(H) = Zeros(call[H].n_samples)

C4_Witness ==
  /\ Live(H) /\ Idle(H)
  /\ obs[H].received = FRAMESIZE_NSAMPLES - 1
  /\ call[H].n_samples = 1
  /\ HostOut(H) = Zeros(1)

\* C5: the end of a run call writes exactly n_samples output samples.  With
\* samples_avail the whole frames in the output ring, if samples_avail is
\* less than n_samples the output is n_samples - samples_avail zeros and then
\* the samples_avail samples at the head of the ring; otherwise it is the
\* n_samples samples at the head of the ring.  The rest of the ring stays.
C5_RunFills ==
  [][(Built(H) /\ call[H].pc = "loop" /\ call'[H].pc = "idle") =>
       LET n     == call[H].n_samples
           ring  == OutRing(H).data
           avail == ((Len(ring) * SIZEOF_FLOAT) \div FRAMESIZE_BYTES)
                      * FRAMESIZE_NSAMPLES
       IN  /\ Len(HostOut(H)') = n
           /\ IF avail < n
              THEN /\ HostOut(H)' = Zeros(n - avail) \o Rescaled(Take(ring, avail))
                   /\ OutRing(H)'.data = Drop(ring, avail)
              ELSE /\ HostOut(H)' = Rescaled(Take(ring, n))
                   /\ OutRing(H)'.data = Drop(ring, n)]_vars

\* A call that processed the first frame of the stream (passed, the gate
\* starting open) and delivered it behind padding.
C5_Witness ==
  /\ Built(H) /\ Idle(H)
  /\ obs[H].frames = 1
  /\ call[H].n_samples > FRAMESIZE_NSAMPLES
  /\ HostOut(H)[1] = 0
  /\ HostOut(H)[call[H].n_samples] # 0

\* C6: with every n_samples at most the capacity less two frames, every push
\* into either ring fits in the room free when it is made, and both rings
\* hold between 0 and their capacity.
C6_PushFits ==
  /\ obs[H].in_push.req <= obs[H].in_push.room
  /\ obs[H].out_push.req <= obs[H].out_push.room
  /\ Built(H) =>
       /\ ringbuf_bytes_used(InRing(H)) <= InRing(H).cap
       /\ ringbuf_bytes_used(OutRing(H)) <= OutRing(H).cap

\* The output ring two samples short of full.
C6_Witness ==
  /\ Built(H)
  /\ obs[H].out_push.req > 0
  /\ ringbuf_bytes_used(OutRing(H)) = OutRing(H).cap - 2 * SIZEOF_FLOAT

\* C7: a pop from either ring never asks for more bytes than the ring holds
\* when it is made.
C7_PopFits ==
  /\ obs[H].in_pop.req <= obs[H].in_pop.room
  /\ obs[H].out_pop.req <= obs[H].out_pop.room

C7_Witness ==
  /\ obs[H].in_pop.req > 0
  /\ obs[H].in_pop.req = obs[H].in_pop.room
  /\ obs[H].out_pop.req > 0
  /\ obs[H].out_pop.req < obs[H].out_pop.room

\* C8: when an allocation of instantiate fails, the host gets a null handle.
C8_NullOnAllocFailure ==
  (handle[H].state = "returned" /\ obs[H].alloc_failed) => handle[H].ptr = NULL

\* C9: a run call leaves the host's input buffer as the host filled it, and
\* leaves the init flag and the port bindings of the record alone.
C9_HostInputUntouched ==
  (Built(H) /\ Connected(H)) =>
     /\ HostIn(H) = obs[H].in_given
     /\ filter[H].init = 0
     /\ filter[H].m_pfInput = LocOf(H, PORT_INPUT)

\* C10: each of two instances whose calls interleave is, at every step, in
\* the state and has the outputs it has when its calls run alone.
C10_Independent ==
  \A h \in Handles : Built(h) => View(h) = solo[h]

C10_Witness ==
  /\ \A h \in Handles : Built(h)
  /\ \E h, g \in Handles :
       /\ obs[h].frames = 2
       /\ obs[g].frames = 1
       /\ call[g].pc = "loop"
       /\ call[h].pc = "loop"
       /\ View(h) = solo[h]
       /\ View(h) # View(g)

----------------------------------------------------------------------------
(* Properties of the gate, the realignment and the padding *)

Grace(h) == filter[h].remaining_grace_period

\* A step that processed one frame, and the step that ends a call.
FrameStep(h) == obs'[h].frames = obs[h].frames + 1

DrainStep(h) == call[h].pc = "loop" /\ call'[h].pc = "idle"

\* The latest frame was pushed as the denoiser produced it / as zeros.
Passed(h) == obs[h].last_pushed = obs[h].last_denoised

Muted(h) == obs[h].last_pushed = Zeros(FRAMESIZE_NSAMPLES)

\* The place in the pushed stream of the last sample of a passed frame.
LastPassedEnd(h) ==
  LET nz == {k \in 1..Len(obs[h].gated) : obs[h].gated[k] # 0}
  IN  IF nz = {} THEN 0 ELSE CHOOSE k \in nz : \A j \in nz : j <= k

\* The samples delivered before the latest call.
DeliveredBefore(h) ==
  Len(obs[h].delivered) - (call[h].n_samples - obs[h].skip)

C12_Realignment ==
  Built(H) =>
    /\ Len(InRing(H).data) < FRAMESIZE_NSAMPLES
    /\ obs[H].frames > 0 => Len(obs[H].last_denoised) = FRAMESIZE_NSAMPLES
    /\ Idle(H) =>
         /\ obs[H].frames = obs[H].received \div FRAMESIZE_NSAMPLES
         /\ Len(InRing(H).data) = obs[H].received % FRAMESIZE_NSAMPLES
    /\ call[H].pc = "loop" =>
         LET before   == obs[H].frames - call[H].i
             leftover == (obs[H].received - call[H].n_samples)
                           - before * FRAMESIZE_NSAMPLES
         IN  /\ call[H].n_frames =
                  (leftover + call[H].n_samples) \div FRAMESIZE_NSAMPLES
             /\ Len(call[H].tmpin) = call[H].n_frames * FRAMESIZE_NSAMPLES
             /\ call[H].i <= call[H].n_frames

\* A call that found a partial frame, processed two frames and left a
\* partial frame.
C12_Witness ==
  /\ Built(H) /\ Idle(H)
  /\ call[H].n_frames = 2
  /\ call[H].n_samples < 2 * FRAMESIZE_NSAMPLES
  /\ Len(InRing(H).data) > 0

\* C13 as stated: a frame above the threshold leaves the counter at
\* VAD_GRACE_PERIOD; any other frame leaves it one lower than it was.
C13_Original ==
  [][FrameStep(H) =>
       IF obs'[H].last_above
       THEN Grace(H)' = VAD_GRACE_PERIOD
       ELSE Grace(H)' = Grace(H) - 1]_vars

\* C13, amended: a frame above the threshold sets the counter to
\* VAD_GRACE_PERIOD and decrements it in the same frame; any other frame
\* decrements the counter by one while it is >= 0 and leaves it alone once
\* it is negative.
C13_CounterTransition ==
  [][FrameStep(H) =>
       LET g == IF obs'[H].last_above THEN VAD_GRACE_PERIOD ELSE Grace(H)
       IN  Grace(H)' = IF g >= 0 THEN g - 1 ELSE g]_vars

\* The counter resting at -1 through a muted frame.
C13_Witness ==
  /\ Built(H)
  /\ obs[H].frames > VAD_GRACE_PERIOD + 1
  /\ Muted(H)
  /\ ~obs[H].last_above
  /\ Grace(H) = 0 - 1

\* C14 as stated: at every frame boundary the frame just processed was
\* passed if the counter is >= 0 and muted if it is negative.
C14_Original ==
  (Built(H) /\ obs[H].frames > 0) =>
     IF Grace(H) >= 0 THEN Passed(H) ELSE Muted(H)

\* C14, amended: a frame is passed if and only if the counter, after the
\* reset of a frame above the threshold and before the decrement, is >= 0,
\* and is pushed as zeros otherwise; at a frame boundary a counter >= 0 means
\* the frame just processed was passed, and a muted frame leaves it negative.
C14_OutputPolicy ==
  /\ [][FrameStep(H) =>
          LET g == IF obs'[H].last_above THEN VAD_GRACE_PERIOD ELSE Grace(H)
          IN  IF g >= 0 THEN Passed(H)' /\ ~Muted(H)' ELSE Muted(H)']_vars
  /\ []((Built(H) /\ obs[H].frames > 0) =>
          /\ Grace(H) >= 0 => Passed(H)
          /\ Muted(H) => Grace(H) < 0)

\* The last frame of a grace period: passed, and the counter negative.
C14_Witness ==
  /\ Built(H)
  /\ obs[H].frames > 0
  /\ Passed(H)
  /\ Grace(H) < 0

\* C15 as stated: a call pads only when the output ring, after the call's
\* frames were pushed, holds fewer samples than n_samples.
C15_Original ==
  (Built(H) /\ Idle(H) /\ obs[H].skip > 0) =>
     obs[H].out_pop.room < call[H].n_samples * SIZEOF_FLOAT

\* C15, amended: a call pads exactly when the whole frames in the output
\* ring, after the call's frames were pushed, are fewer samples than
\* n_samples; otherwise its output is n_samples buffered samples.
C15_PaddingOnShortage ==
  (Built(H) /\ Idle(H)) =>
     LET avail == (obs[H].out_pop.room \div FRAMESIZE_BYTES) * FRAMESIZE_NSAMPLES
     IN  /\ obs[H].skip = IF avail < call[H].n_samples
                          THEN call[H].n_samples - avail ELSE 0
         /\ obs[H].skip = 0 =>
              /\ Len(obs[H].delivered) >= call[H].n_samples
              /\ HostOut(H) = Drop(obs[H].delivered,
                                   Len(obs[H].delivered) - call[H].n_samples)

\* A call that padded while the output ring held as many samples as asked.
C15_Witness ==
  /\ Built(H) /\ Idle(H)
  /\ obs[H].skip > 0
  /\ obs[H].out_pop.room >= call[H].n_samples * SIZEOF_FLOAT

\* C16: during a call the threshold is the control value the host set for
\* the call, over 100; a frame sets the counter back if and only if its
\* probability is strictly above it.
C16_Threshold ==
  /\ []((Built(H) /\ call[H].pc = "loop") =>
          call[H].vad_thresh.num * PERCENT
            = mem[LocOf(H, PORT_VAD)] * call[H].vad_thresh.den)
  /\ [][FrameStep(H) =>
          /\ obs'[H].last_above =>
               Grace(H)' = VAD_GRACE_PERIOD - 1 /\ Passed(H)'
          /\ ~obs'[H].last_above => Grace(H)' <= Grace(H)
          /\ mem'[LocOf(H, PORT_VAD)] = mem[LocOf(H, PORT_VAD)]
          /\ call'[H].vad_thresh = call[H].vad_thresh]_vars

\* A closed gate kept closed by a probability equal to the threshold (the
\* control value 0 and a probability not above it).
C16_Witness ==
  /\ Built(H)
  /\ obs[H].frames > 0
  /\ mem[LocOf(H, PORT_VAD)] = 0
  /\ ~obs[H].last_above
  /\ Muted(H)

\* C17: a run call ends after n_frames turns of the frame loop and the
\* drain.  In the loop the frames processed are at most n_frames, so that
\* the next turn (i < n_frames) or the drain (i = n_frames) is the step to
\* take, neither waiting on anything else; every step of the call processes
\* the next frame or ends the call, and the call ends with i = n_frames.
C17_RunTerminates ==
  /\ []((Built(H) /\ call[H].pc = "loop") =>
          /\ call[H].i >= 0
          /\ call[H].i <= call[H].n_frames)
  /\ [][call[H].pc = "loop" =>
          \/ call'[H].pc = "idle" /\ call[H].i = call[H].n_frames
          \/ /\ call'[H].pc = "loop"
             /\ call'[H].n_frames = call[H].n_frames
             /\ call'[H].i = call[H].i + 1]_vars

\* A call ended after two turns of the loop.
C17_Witness ==
  /\ Built(H) /\ Idle(H)
  /\ call[H].n_frames = 2
  /\ call[H].i = 2

\* C18: between frames the counter is in -1 .. VAD_GRACE_PERIOD; the gate is
\* closed, that is the next frame is muted unless its probability is above
\* the threshold, exactly when the counter is -1; and a muted frame leaves
\* the counter at -1.
C18_CounterRange ==
  /\ [](Built(H) => Grace(H) \in (0 - 1)..VAD_GRACE_PERIOD)
  /\ []((Built(H) /\ obs[H].frames > 0 /\ Muted(H)) => Grace(H) = 0 - 1)
  /\ [][(FrameStep(H) /\ ~obs'[H].last_above) =>
          (Muted(H)' <=> Grace(H) = 0 - 1)]_vars

\* A second muted frame in a row, the counter still at -1.
C18_Witness ==
  /\ Built(H)
  /\ obs[H].frames >= VAD_GRACE_PERIOD + 3
  /\ ~obs[H].last_above
  /\ Grace(H) = 0 - 1
  /\ Muted(H)

\* C19: on a fresh instance with no frame above the threshold, the first
\* VAD_GRACE_PERIOD + 1 frames are passed and every later frame is muted.
C19_FreshGate ==
  (Built(H) /\ obs[H].frames > 0 /\ obs[H].since_trigger < 0) =>
     IF obs[H].frames <= VAD_GRACE_PERIOD + 1
     THEN Passed(H) /\ ~Muted(H)
     ELSE Muted(H)

\* The first muted frame of a fresh instance.
C19_Witness ==
  /\ Built(H)
  /\ obs[H].since_trigger < 0
  /\ obs[H].frames = VAD_GRACE_PERIOD + 2
  /\ Muted(H)

\* C20: the padding written over the life of the instance is at most two
\* frames less two samples, and after every call equals the samples in the
\* output ring plus the samples in the input ring.
C20_PaddingBound ==
  Built(H) =>
    /\ obs[H].padding <= 2 * FRAMESIZE_NSAMPLES - 2
    /\ Idle(H) =>
         obs[H].padding = Len(OutRing(H).data) + Len(InRing(H).data)

\* The most padding there can be, and a later call that padded nothing.
C20_Witness ==
  /\ Built(H) /\ Idle(H)
  /\ obs[H].padding = 2 * FRAMESIZE_NSAMPLES - 2
  /\ obs[H].skip = 0
  /\ Len(obs[H].delivered) > 0

====
